---- MODULE Spec2Model ----
(***************************************************************************)
(* Model of the QueryArc result renderer (script.js): the submission       *)
(* lifecycle of analyzeUrl and the rendering of an AnalysisResult into the *)
(* page's containers.                                                      *)
(*                                                                         *)
(* JavaScript values are tagged records.  Numbers are held in tenths       *)
(* (7.3 is Num(73), 82 is Num(820)); a property that is absent from an     *)
(* object reads as undefined, so an absent key is a key bound to Undef.    *)
(* Text is a TLA+ string, except the URL typed by the user, which is a     *)
(* sequence of one-character strings so that trim() acts on it.            *)
(***************************************************************************)
EXTENDS Integers, Sequences, FiniteSets, TLC

(***************************************************************************)
(* JavaScript values                                                       *)
(***************************************************************************)
Undef == [t |-> "undefined"]
Null == [t |-> "null"]
Num(n) == [t |-> "number", v |-> n]
Str(s) == [t |-> "string", v |-> s]
Bool(b) == [t |-> "boolean", v |-> b]
Obj(f) == [t |-> "object", f |-> f]
Arr(s) == [t |-> "array", v |-> s]

\* The em dash placeholder (U+2014) of the templates, written in ASCII.
Dash == "--"

Nullish(v) == v.t \in {"undefined", "null"}

\* ToBoolean: what `if (v)`, `v ? a : b`, `v || w` and `v && w` test.
Truthy(v) ==
  CASE v.t = "undefined" -> FALSE
    [] v.t = "null" -> FALSE
    [] v.t = "number" -> v.v # 0
    [] v.t = "string" -> v.v # ""
    [] v.t = "boolean" -> v.v
    [] OTHER -> TRUE

\* v.k for a value that is neither null nor undefined (those throw).
Get(v, k) ==
  IF v.t = "object" /\ k \in DOMAIN v.f THEN v.f[k] ELSE Undef

\* The destructuring default `k = d`: it replaces undefined only, never null.
Default(v, d) == IF v.t = "undefined" THEN d ELSE v

TypeofNumber(v) == v.t = "number"
IsArray(v) == v.t = "array"

\* Number.prototype.toString for a number held in tenths.
NumToString(n) ==
  LET a == IF n < 0 THEN 0 - n ELSE n
      sign == IF n < 0 THEN "-" ELSE ""
  IN  IF a % 10 = 0
      THEN sign \o ToString(a \div 10)
      ELSE sign \o ToString(a \div 10) \o "." \o ToString(a % 10)

\* Number.prototype.toFixed(1) for a number held in tenths.
ToFixed1(n) ==
  LET a == IF n < 0 THEN 0 - n ELSE n
      sign == IF n < 0 THEN "-" ELSE ""
  IN  sign \o ToString(a \div 10) \o "." \o ToString(a % 10)

RECURSIVE JoinStrings(_, _)
JoinStrings(s, sep) ==
  IF Len(s) = 0 THEN ""
  ELSE IF Len(s) = 1 THEN s[1]
  ELSE s[1] \o sep \o JoinStrings(Tail(s), sep)

\* String(v), as a template literal `${v}` applies it.
RECURSIVE ToStr(_)
ToStr(v) ==
  CASE v.t = "undefined" -> "undefined"
    [] v.t = "null" -> "null"
    [] v.t = "number" -> NumToString(v.v)
    [] v.t = "string" -> v.v
    [] v.t = "boolean" -> IF v.v THEN "true" ELSE "false"
    [] v.t = "object" -> "[object Object]"
    [] v.t = "array" ->
         JoinStrings([i \in 1..Len(v.v) |->
                        IF Nullish(v.v[i]) THEN "" ELSE ToStr(v.v[i])], ",")

\* Array.prototype.join(sep) on an array value.
JoinArr(v, sep) ==
  JoinStrings([i \in 1..Len(v.v) |->
                 IF Nullish(v.v[i]) THEN "" ELSE ToStr(v.v[i])], sep)

\* Whether `v.length` is truthy, for v neither null nor undefined.
LengthTruthy(v) ==
  \/ v.t = "array" /\ Len(v.v) > 0
  \/ v.t = "string" /\ Len(v.v) > 0

\* `v.length ? v.map(...) : e` raises a TypeError when v is null (its default
\* does not apply) or when v has a length but no map (a non-empty string).
ListThrows(v) == Nullish(v) \/ (LengthTruthy(v) /\ ~IsArray(v))

\* `v && v.length ? v.map(...) : e`: the guard lets null through.
GuardedListThrows(v) == Truthy(v) /\ LengthTruthy(v) /\ ~IsArray(v)

\* v.map((x) => `${x}`) as the sequence of the items' texts.
MapText(v) ==
  IF IsArray(v) THEN [i \in 1..Len(v.v) |-> ToStr(v.v[i])] ELSE <<>>

\* `v || d` interpolated into a template.
TextOr(v, d) == IF Truthy(v) THEN ToStr(v) ELSE d

EmptyObject == Obj(<<>>)
EmptyArray == Arr(<<>>)

(***************************************************************************)
(* Rendering.  A render function takes the containers `dom` and returns    *)
(* [threw, dom]: whether it raised an exception and the containers it      *)
(* leaves.  innerHTML is held as the record of the values interpolated     *)
(* into the template; a template that throws assigns nothing.              *)
(***************************************************************************)

\* `b && typeof b.k === "number" ? b.k : 0`
ScoreOf(b, k) ==
  IF Truthy(b) /\ TypeofNumber(Get(b, k)) THEN Get(b, k).v ELSE 0

\* `x ? x.toFixed(1) : "—"`
SubScoreText(x) == IF x # 0 THEN ToFixed1(x) ELSE Dash

renderArcRank(scoreMatrix, clarityBlock, faqBlock, fanoutBlock, dom) ==
  IF ~Truthy(scoreMatrix)
  THEN [threw |-> FALSE, dom |-> dom]
  ELSE LET overall == IF TypeofNumber(Get(scoreMatrix, "final_score"))
                      THEN Get(scoreMatrix, "final_score").v ELSE 0
           aio == ScoreOf(clarityBlock, "score")
           aeo == ScoreOf(faqBlock, "score")
           geo == ScoreOf(fanoutBlock, "coverage_score")
       IN  [threw |-> FALSE,
            dom |-> [dom EXCEPT !.arcScore = NumToString(overall),
                                !.scoreAio = SubScoreText(aio),
                                !.scoreAeo = SubScoreText(aeo),
                                !.scoreGeo = SubScoreText(geo)]]

\* The list defaults `= []` of renderLlmView left out.
LlmViewThrowsWithoutDefaults(view) ==
  \/ ListThrows(Get(view, "secondary_topics"))
  \/ ListThrows(Get(view, "key_claims_llm_detected"))

LlmViewThrows(view) ==
  \/ ListThrows(Default(Get(view, "secondary_topics"), EmptyArray))
  \/ ListThrows(Default(Get(view, "key_claims_llm_detected"), EmptyArray))

LlmViewHtml(view) ==
  [rendered |-> TRUE,
   primary_topic |-> TextOr(Get(view, "primary_topic"), Dash),
   detected_intent |-> TextOr(Get(view, "detected_intent"), Dash),
   confidence_level |-> TextOr(Get(view, "confidence_level"), Dash),
   secondary_topics |->
     MapText(Default(Get(view, "secondary_topics"), EmptyArray)),
   summary |-> TextOr(Get(view, "summary_llm_generated"), ""),
   key_claims |->
     MapText(Default(Get(view, "key_claims_llm_detected"), EmptyArray))]

renderLlmView(view, dom) ==
  IF ~Truthy(view)
  THEN [threw |-> FALSE, dom |-> dom]
  ELSE IF LlmViewThrows(view)
  THEN [threw |-> TRUE, dom |-> dom]
  ELSE [threw |-> FALSE, dom |-> [dom EXCEPT !.llmView = LlmViewHtml(view)]]

\* One part of the context of renderEvaluation, with its `= {}` default.
EvPart(ctx, k) == Default(Get(ctx, k), EmptyObject)

\* One field of a part, with its destructuring default d.
EvField(ctx, part, k, d) == Default(Get(EvPart(ctx, part), k), d)

EvParts ==
  {"executive_summary", "score_matrix", "fanout_query_analysis",
   "clarity_readability", "eeat_block", "fix_roadmap"}

EvRoadmapLists ==
  {"immediate_fixes_next_24h", "medium_priority_next_7_days",
   "long_term_next_30_days"}

\* ToNumber(v) >= n, n in tenths; text that is no numeral converts to NaN.
AtLeast(v, n) ==
  CASE v.t = "number" -> v.v >= n
    [] v.t = "null" -> 0 >= n
    [] v.t = "boolean" -> (IF v.v THEN 10 ELSE 0) >= n
    [] v.t = "string" -> v.v = "" /\ 0 >= n
    [] v.t = "array" -> Len(v.v) = 0 /\ 0 >= n
    [] OTHER -> FALSE

\* The score bar without its clamp: value * 10.
ScoreBarPctUnclamped(value) == value * 10

\* Math.min(10, Math.max(0, value)) * 10, value and result in tenths.
ScoreBarPct(value) ==
  LET lo == IF value < 0 THEN 0 ELSE value
      c == IF lo > 100 THEN 100 ELSE lo
  IN  c * 10

ScoreRows(ctx) ==
  << <<"Summary block", EvField(ctx, "score_matrix", "summary_block", Num(0))>>,
     <<"Definitions", EvField(ctx, "score_matrix", "definitions", Num(0))>>,
     <<"FAQ", EvField(ctx, "score_matrix", "faq", Num(0))>>,
     <<"Fanout coverage", EvField(ctx, "score_matrix", "fanout_match", Num(0))>>,
     <<"Canonical resources",
       EvField(ctx, "score_matrix", "canonical_resources", Num(0))>>,
     <<"Structure", EvField(ctx, "score_matrix", "structure", Num(0))>>,
     <<"Clarity / readability", EvField(ctx, "score_matrix", "clarity", Num(0))>>,
     <<"EEAT", EvField(ctx, "score_matrix", "eeat", Num(0))>> >>

IsNumberRow(row) == TypeofNumber(row[2])

ScoreBars(ctx) ==
  LET rows == SelectSeq(ScoreRows(ctx), IsNumberRow)
  IN  [i \in 1..Len(rows) |->
         [label |-> rows[i][1],
          width |-> NumToString(ScoreBarPct(rows[i][2].v)) \o "%",
          value |-> ToFixed1(rows[i][2].v)]]

\* `x.length ? x.map(...) : "<li>fallback</li>"`
ListOrFallback(x, fallback) ==
  IF LengthTruthy(x) THEN MapText(x) ELSE <<fallback>>

\* The `= {}` defaults of renderEvaluation left out: destructuring an absent
\* part throws as destructuring null does.
EvaluationThrowsWithoutDefaults(ctx) ==
  \E k \in EvParts : Nullish(Get(ctx, k))

EvaluationThrows(ctx) ==
  \/ \E k \in EvParts : EvPart(ctx, k).t = "null"
  \/ EvPart(ctx, "page_metadata").t = "null"
  \/ GuardedListThrows(EvField(ctx, "executive_summary", "top_3_fixes", EmptyArray))
  \/ EvField(ctx, "fanout_query_analysis", "coverage_score", Num(0)).t = "null"
  \/ \E k \in EvRoadmapLists : ListThrows(EvField(ctx, "fix_roadmap", k, EmptyArray))
  \/ GuardedListThrows(EvField(ctx, "fanout_query_analysis", "main_gaps", EmptyArray))
  \/ GuardedListThrows(EvField(ctx, "clarity_readability", "issues", EmptyArray))
  \/ GuardedListThrows(EvField(ctx, "clarity_readability", "fixes", EmptyArray))
  \/ GuardedListThrows(EvField(ctx, "eeat_block", "missing_elements", EmptyArray))

VerdictClass(verdict) ==
  IF verdict.t = "string" /\ verdict.v \in {"Ready", "Partially Ready"}
  THEN "verdict-pill verdict-pill--good"
  ELSE "verdict-pill verdict-pill--poor"

EvaluationHtml(ctx) ==
  LET verdict == EvField(ctx, "executive_summary", "verdict", Str(""))
      cov == EvField(ctx, "fanout_query_analysis", "coverage_score", Num(0))
      missing == EvField(ctx, "eeat_block", "missing_elements", EmptyArray)
  IN
  [rendered |-> TRUE,
   verdictClass |-> VerdictClass(verdict),
   verdict |-> TextOr(verdict, Dash),
   llmReady |->
     IF AtLeast(EvField(ctx, "score_matrix", "final_score", Num(0)), 600)
     THEN "Yes" ELSE "No",
   url |-> TextOr(Get(EvPart(ctx, "page_metadata"), "url"), "this page"),
   main_issue |-> TextOr(EvField(ctx, "executive_summary", "main_issue", Str("")), ""),
   top_3_fixes |->
     MapText(EvField(ctx, "executive_summary", "top_3_fixes", EmptyArray)),
   overall |->
     ToStr(EvField(ctx, "executive_summary", "overall_llm_readiness_score", Num(0))),
   fanout |-> IF TypeofNumber(cov) THEN ToFixed1(cov.v) ELSE ToStr(cov),
   eeat |-> ToStr(EvField(ctx, "eeat_block", "score", Num(0))),
   bars |-> ScoreBars(ctx),
   next_24h |->
     ListOrFallback(EvField(ctx, "fix_roadmap", "immediate_fixes_next_24h", EmptyArray),
                    "Add substantial article content and key sections."),
   next_7_days |->
     ListOrFallback(EvField(ctx, "fix_roadmap", "medium_priority_next_7_days", EmptyArray),
                    "Add FAQ, definitions, and improve internal linking."),
   next_30_days |->
     ListOrFallback(EvField(ctx, "fix_roadmap", "long_term_next_30_days", EmptyArray),
                    "Strengthen EEAT with author info, case studies, and references."),
   main_gaps |-> MapText(EvField(ctx, "fanout_query_analysis", "main_gaps", EmptyArray)),
   clarity_issues |-> MapText(EvField(ctx, "clarity_readability", "issues", EmptyArray)),
   clarity_fixes |-> MapText(EvField(ctx, "clarity_readability", "fixes", EmptyArray)),
   author_info |->
     IF Truthy(EvField(ctx, "eeat_block", "author_info_found", Bool(FALSE)))
     THEN "Yes" ELSE "No",
   expertise |-> TextOr(EvField(ctx, "eeat_block", "expertise_visibility", Str("")), ""),
   experience |-> TextOr(EvField(ctx, "eeat_block", "experience_signals", Str("")), ""),
   trust |-> TextOr(EvField(ctx, "eeat_block", "trust_signals", Str("")), ""),
   missing_elements |->
     IF Truthy(missing) /\ LengthTruthy(missing) THEN JoinArr(missing, ", ") ELSE ""]

renderEvaluation(ctx, dom) ==
  IF EvaluationThrows(ctx)
  THEN [threw |-> TRUE, dom |-> dom]
  ELSE [threw |-> FALSE, dom |-> [dom EXCEPT !.evaluation = EvaluationHtml(ctx)]]

\* `b && Array.isArray(b.k) ? b.k : []`
ArrayOf(b, k) ==
  IF Truthy(b) /\ IsArray(Get(b, k)) THEN Get(b, k) ELSE EmptyArray

\* `b && b.k ? b.k : d`
TruthyOf(b, k, d) ==
  IF Truthy(b) /\ Truthy(Get(b, k)) THEN Get(b, k) ELSE d

\* An item callback `(d) => ... ${d.k} ...` throws on a null or undefined item.
ItemsThrow(arr) == \E i \in 1..Len(arr.v) : Nullish(arr.v[i])

SummaryHtml(summary) ==
  [rendered |-> TRUE,
   recommended |->
     IF Truthy(summary) /\ Truthy(Get(summary, "recommended_summary_block"))
     THEN ToStr(Get(summary, "recommended_summary_block"))
     ELSE "No recommended summary.",
   score |-> NumToString(ScoreOf(summary, "score")),
   quality |-> ToStr(TruthyOf(summary, "quality", Str("not_applicable")))]

DefinitionsThrows(defs) ==
  \/ ItemsThrow(ArrayOf(defs, "recommended_definitions"))
  \/ LET missing == TruthyOf(defs, "missing_critical_terms", EmptyArray)
     IN  LengthTruthy(missing) /\ ~IsArray(missing)

DefinitionsHtml(defs) ==
  LET recDefs == ArrayOf(defs, "recommended_definitions")
      missing == TruthyOf(defs, "missing_critical_terms", EmptyArray)
  IN  [rendered |-> TRUE,
       items |-> [i \in 1..Len(recDefs.v) |->
                    [term |-> ToStr(Get(recDefs.v[i], "term")),
                     definition |-> ToStr(Get(recDefs.v[i], "definition"))]],
       empty_text |-> IF Len(recDefs.v) > 0 THEN ""
                      ELSE "No recommended definitions.",
       missing |-> IF LengthTruthy(missing) THEN JoinArr(missing, ", ") ELSE "",
       score |-> NumToString(ScoreOf(defs, "score"))]

FaqThrows(faq) == ItemsThrow(ArrayOf(faq, "recommended_faqs"))

FaqHtml(faq) ==
  LET recFaqs == ArrayOf(faq, "recommended_faqs")
  IN  [rendered |-> TRUE,
       items |-> [i \in 1..Len(recFaqs.v) |->
                    [q |-> ToStr(Get(recFaqs.v[i], "q")),
                     a |-> ToStr(Get(recFaqs.v[i], "a"))]],
       empty_text |-> IF Len(recFaqs.v) > 0 THEN ""
                      ELSE "No FAQ suggestions generated.",
       score |-> NumToString(ScoreOf(faq, "score"))]

CanonicalThrows(canon) == ItemsThrow(ArrayOf(canon, "recommended_resources"))

CanonicalHtml(canon) ==
  LET recRes == ArrayOf(canon, "recommended_resources")
  IN  [rendered |-> TRUE,
       items |-> [i \in 1..Len(recRes.v) |->
                    [href |-> ToStr(Get(recRes.v[i], "url")),
                     label |-> TextOr(Get(recRes.v[i], "title"),
                                      ToStr(Get(recRes.v[i], "url")))]],
       empty_text |-> IF Len(recRes.v) > 0 THEN ""
                      ELSE "No canonical resources recommended.",
       score |-> NumToString(ScoreOf(canon, "score")),
       why |-> ToStr(TruthyOf(canon, "why_it_matters",
                              Str("Canonical resources help AI models.")))]

\* The four regions are written in order; a throw leaves the later ones alone.
renderBlocks(summary, defs, faq, canon, dom) ==
  LET d1 == [dom EXCEPT !.summaryBlock = SummaryHtml(summary)]
      d2 == [d1 EXCEPT !.definitionsBlock = DefinitionsHtml(defs)]
      d3 == [d2 EXCEPT !.faqBlock = FaqHtml(faq)]
      d4 == [d3 EXCEPT !.canonicalBlock = CanonicalHtml(canon)]
  IN  IF DefinitionsThrows(defs) THEN [threw |-> TRUE, dom |-> d1]
      ELSE IF FaqThrows(faq) THEN [threw |-> TRUE, dom |-> d2]
      ELSE IF CanonicalThrows(canon) THEN [threw |-> TRUE, dom |-> d3]
      ELSE [threw |-> FALSE, dom |-> d4]

\* The context object renderResults builds for renderEvaluation.
EvaluationCtx(data) ==
  Obj([k \in {"page_metadata", "executive_summary", "score_matrix",
              "fanout_query_analysis", "clarity_readability", "eeat_block",
              "fix_roadmap"} |-> Get(data, k)])

renderResults(data, dom) ==
  IF ~Truthy(data)
  THEN [threw |-> FALSE, dom |-> dom, called |-> <<>>]
  ELSE
    LET r1 == renderArcRank(Get(data, "score_matrix"),
                            Get(data, "clarity_readability"),
                            Get(data, "faq_block"),
                            Get(data, "fanout_query_analysis"), dom)
        r2 == renderLlmView(Get(data, "llm_interpretation"), r1.dom)
        r3 == renderEvaluation(EvaluationCtx(data), r2.dom)
        r4 == renderBlocks(Get(data, "summary_block"),
                           Get(data, "definitions_block"),
                           Get(data, "faq_block"),
                           Get(data, "canonical_resources_block"), r3.dom)
        order == <<"renderArcRank", "renderLlmView", "renderEvaluation",
                   "renderBlocks">>
        reached == IF r1.threw THEN 1
                   ELSE IF r2.threw THEN 2
                   ELSE IF r3.threw THEN 3 ELSE 4
        last == <<r1, r2, r3, r4>>[reached]
    IN  [threw |-> last.threw, dom |-> last.dom,
         called |-> SubSeq(order, 1, reached)]

(***************************************************************************)
(* Rendering in backup/script.js, which reads the older schema             *)
(* {llm_view, evaluation, blocks}.  Its functions carry the names of the   *)
(* current script's, here prefixed with backup_.  The overall score of     *)
(* evaluation.scores is held in hundredths, so that its rounding acts.     *)
(***************************************************************************)

\* x * 10 cut to its integer part instead of rounded.
TruncTimes10(h) == h \div 10

\* Math.round(x * 10) for x held in hundredths: the nearest integer, a half
\* rounded up.
RoundTimes10(h) == (h + 5) \div 10

\* Number.prototype.toString for a number held in hundredths.
HundredthsToString(h) ==
  LET a == IF h < 0 THEN 0 - h ELSE h
      sign == IF h < 0 THEN "-" ELSE ""
      frac == a % 100
  IN  sign \o ToString(a \div 100) \o
      (IF frac = 0 THEN ""
       ELSE IF frac % 10 = 0 THEN "." \o ToString(frac \div 10)
       ELSE IF frac < 10 THEN ".0" \o ToString(frac)
       ELSE "." \o ToString(frac))

\* `isNaN(arcNumeric) ? dash : arcNumeric` for arcNumeric =
\* Math.round((overall || 0) * 10); text and objects multiply to NaN.
backup_ArcNumeric(overall) ==
  CASE overall.t = "number" -> ToString(RoundTimes10(overall.v))
    [] ~Truthy(overall) -> "0"
    [] overall.t = "boolean" -> "10"
    [] overall.t = "array" /\ Len(overall.v) = 0 -> "0"
    [] OTHER -> Dash

\* `x ? x.toFixed(1) : dash` throws when x is truthy and has no toFixed.
backup_SubScoreThrows(x) == Truthy(x) /\ ~TypeofNumber(x)

backup_SubScoreText(x) ==
  IF TypeofNumber(x) /\ x.v # 0 THEN ToFixed1(x.v) ELSE Dash

backup_renderArcRank(evaluation, dom) ==
  IF ~Truthy(evaluation) \/ ~Truthy(Get(evaluation, "scores"))
  THEN [threw |-> FALSE, dom |-> dom]
  ELSE LET scores == Get(evaluation, "scores")
           aio == Default(Get(scores, "intent_clarity"), Num(0))
           aeo == Default(Get(scores, "answerability"), Num(0))
           geo == Default(Get(scores, "coverage"), Num(0))
           overall == Default(Get(scores, "overall"), Num(0))
           d1 == [dom EXCEPT !.arcScore = backup_ArcNumeric(overall)]
           d2 == [d1 EXCEPT !.scoreAio = backup_SubScoreText(aio)]
           d3 == [d2 EXCEPT !.scoreAeo = backup_SubScoreText(aeo)]
           d4 == [d3 EXCEPT !.scoreGeo = backup_SubScoreText(geo)]
       IN  IF backup_SubScoreThrows(aio) THEN [threw |-> TRUE, dom |-> d1]
           ELSE IF backup_SubScoreThrows(aeo) THEN [threw |-> TRUE, dom |-> d2]
           ELSE IF backup_SubScoreThrows(geo) THEN [threw |-> TRUE, dom |-> d3]
           ELSE [threw |-> FALSE, dom |-> d4]

backup_LlmLists ==
  {"important_entities", "key_facts", "user_questions_answered",
   "user_questions_missing"}

backup_LlmViewHtml(view) ==
  [rendered |-> TRUE,
   primary_topic |-> TextOr(Get(view, "primary_topic"), Dash),
   primary_intent |-> TextOr(Get(view, "primary_intent"), Dash),
   audience |-> TextOr(Get(view, "audience"), Dash),
   lists |-> [k \in backup_LlmLists |->
                MapText(Default(Get(view, k), EmptyArray))]]

backup_renderLlmView(view, dom) ==
  IF ~Truthy(view)
  THEN [threw |-> FALSE, dom |-> dom]
  ELSE IF \E k \in backup_LlmLists : ListThrows(Default(Get(view, k), EmptyArray))
  THEN [threw |-> TRUE, dom |-> dom]
  ELSE [threw |-> FALSE,
        dom |-> [dom EXCEPT !.llmView = backup_LlmViewHtml(view)]]

\* `ev.scores || {}`
backup_Scores(evl) ==
  IF Truthy(Get(evl, "scores")) THEN Get(evl, "scores") ELSE EmptyObject

backup_ScoreRows(evl) ==
  << <<"Intent clarity", Default(Get(backup_Scores(evl), "intent_clarity"), Num(0))>>,
     <<"Coverage", Default(Get(backup_Scores(evl), "coverage"), Num(0))>>,
     <<"Structure", Default(Get(backup_Scores(evl), "structure"), Num(0))>>,
     <<"Definitions", Default(Get(backup_Scores(evl), "definitions"), Num(0))>>,
     <<"Answerability", Default(Get(backup_Scores(evl), "answerability"), Num(0))>>,
     <<"Trust", Default(Get(backup_Scores(evl), "trust"), Num(0))>>,
     <<"Canonical", Get(evl, "canonical_score")>> >>

backup_ScoreBars(evl) ==
  LET rows == SelectSeq(backup_ScoreRows(evl), IsNumberRow)
  IN  [i \in 1..Len(rows) |->
         [label |-> rows[i][1],
          width |-> NumToString(ScoreBarPct(rows[i][2].v)) \o "%",
          value |-> ToFixed1(rows[i][2].v)]]

backup_EvLists == {"priority_fixes", "issues", "recommendations"}

backup_EvList(evl, k) == Default(Get(evl, k), EmptyArray)

\* `a.length || b.length ? ...a.map... b.map... : ""`
backup_CanonicalNotesThrow(a, b) ==
  \/ Nullish(a)
  \/ ~LengthTruthy(a) /\ Nullish(b)
  \/ (LengthTruthy(a) \/ LengthTruthy(b)) /\ (~IsArray(a) \/ ~IsArray(b))

backup_EvaluationThrows(evl) ==
  \/ \E k \in backup_EvLists : ListThrows(backup_EvList(evl, k))
  \/ backup_CanonicalNotesThrow(backup_EvList(evl, "canonical_issues"),
                                backup_EvList(evl, "canonical_recommendations"))

backup_VerdictClass(verdict) ==
  IF verdict.t = "string" /\ verdict.v \in {"excellent", "good"}
  THEN "verdict-pill verdict-pill--good"
  ELSE "verdict-pill verdict-pill--poor"

\* The flag with the verdict taken for the backend's llm_ready.
backup_LlmReadyOfVerdict(evl) ==
  IF backup_VerdictClass(Get(evl, "verdict")) = "verdict-pill verdict-pill--good"
  THEN "Yes" ELSE "No"

\* `llm_ready ? "Yes" : "No"`
backup_LlmReady(evl) == IF Truthy(Get(evl, "llm_ready")) THEN "Yes" ELSE "No"

backup_OverallText(overall) ==
  IF TypeofNumber(overall) THEN HundredthsToString(overall.v) ELSE ToStr(overall)

backup_EvaluationHtml(evl) ==
  [rendered |-> TRUE,
   verdictClass |-> backup_VerdictClass(Get(evl, "verdict")),
   verdict |-> TextOr(Get(evl, "verdict"), Dash),
   llmReady |-> backup_LlmReady(evl),
   overall |->
     backup_OverallText(Default(Get(backup_Scores(evl), "overall"), Num(0))),
   canonical_score |->
     IF TypeofNumber(Get(evl, "canonical_score"))
     THEN NumToString(Get(evl, "canonical_score").v) ELSE "",
   bars |-> backup_ScoreBars(evl),
   lists |-> [k \in backup_EvLists |-> MapText(backup_EvList(evl, k))],
   canonical_notes |->
     MapText(backup_EvList(evl, "canonical_issues")) \o
     MapText(backup_EvList(evl, "canonical_recommendations"))]

backup_renderEvaluation(evl, dom) ==
  IF ~Truthy(evl)
  THEN [threw |-> FALSE, dom |-> dom]
  ELSE IF backup_EvaluationThrows(evl)
  THEN [threw |-> TRUE, dom |-> dom]
  ELSE [threw |-> FALSE,
        dom |-> [dom EXCEPT !.evaluation = backup_EvaluationHtml(evl)]]

\* `blocks.k || d`
backup_BlockOr(blocks, k, d) ==
  IF Truthy(Get(blocks, k)) THEN Get(blocks, k) ELSE d

\* `list.length ? list.map((x) => ... ${x.k} ...) : e`
backup_ItemListThrows(list) ==
  LengthTruthy(list) /\ (~IsArray(list) \/ ItemsThrow(list))

backup_SummaryHtml(summary) ==
  [rendered |-> TRUE,
   purpose |-> TextOr(Get(summary, "purpose"), Dash),
   audience |-> TextOr(Get(summary, "audience"), Dash),
   key_points |-> MapText(Get(summary, "key_points"))]

backup_DefinitionsHtml(defs) ==
  [rendered |-> TRUE,
   items |-> IF IsArray(defs)
             THEN [i \in 1..Len(defs.v) |->
                     [term |-> ToStr(Get(defs.v[i], "term")),
                      definition |-> ToStr(Get(defs.v[i], "definition")),
                      context |-> TextOr(Get(defs.v[i], "context"), "")]]
             ELSE <<>>,
   empty_text |-> IF LengthTruthy(defs) THEN "" ELSE "No definitions generated."]

backup_FaqHtml(faq) ==
  [rendered |-> TRUE,
   items |-> IF IsArray(faq)
             THEN [i \in 1..Len(faq.v) |->
                     [q |-> ToStr(Get(faq.v[i], "question")),
                      a |-> ToStr(Get(faq.v[i], "answer"))]]
             ELSE <<>>,
   empty_text |-> IF LengthTruthy(faq) THEN "" ELSE "No FAQ generated."]

backup_CanonicalHtml(canon) ==
  [rendered |-> TRUE,
   items |-> IF IsArray(canon)
             THEN [i \in 1..Len(canon.v) |->
                     [href |-> ToStr(Get(canon.v[i], "url")),
                      label |-> TextOr(Get(canon.v[i], "title"),
                                       ToStr(Get(canon.v[i], "url")))]]
             ELSE <<>>,
   empty_text |-> IF LengthTruthy(canon) THEN "" ELSE "No canonical resources."]

backup_renderBlocks(blocks, dom) ==
  IF ~Truthy(blocks)
  THEN [threw |-> FALSE, dom |-> dom]
  ELSE
    LET summary == backup_BlockOr(blocks, "summary_block", EmptyObject)
        defs == backup_BlockOr(blocks, "definitions_block", EmptyArray)
        faq == backup_BlockOr(blocks, "faq_block", EmptyArray)
        canon == backup_BlockOr(blocks, "canonical_resources", EmptyArray)
        d1 == [dom EXCEPT !.summaryBlock = backup_SummaryHtml(summary)]
        d2 == [d1 EXCEPT !.definitionsBlock = backup_DefinitionsHtml(defs)]
        d3 == [d2 EXCEPT !.faqBlock = backup_FaqHtml(faq)]
        d4 == [d3 EXCEPT !.canonicalBlock = backup_CanonicalHtml(canon)]
    IN  IF GuardedListThrows(Get(summary, "key_points"))
        THEN [threw |-> TRUE, dom |-> dom]
        ELSE IF backup_ItemListThrows(defs) THEN [threw |-> TRUE, dom |-> d1]
        ELSE IF backup_ItemListThrows(faq) THEN [threw |-> TRUE, dom |-> d2]
        ELSE IF backup_ItemListThrows(canon) THEN [threw |-> TRUE, dom |-> d3]
        ELSE [threw |-> FALSE, dom |-> d4]

\* `const { llm_view, evaluation, blocks } = data || {}` and the four calls.
backup_renderResults(data, dom) ==
  LET r1 == backup_renderArcRank(Get(data, "evaluation"), dom)
      r2 == backup_renderLlmView(Get(data, "llm_view"), r1.dom)
      r3 == backup_renderEvaluation(Get(data, "evaluation"), r2.dom)
      r4 == backup_renderBlocks(Get(data, "blocks"), r3.dom)
      order == <<"renderArcRank", "renderLlmView", "renderEvaluation",
                 "renderBlocks">>
      reached == IF r1.threw THEN 1
                 ELSE IF r2.threw THEN 2
                 ELSE IF r3.threw THEN 3 ELSE 4
      last == <<r1, r2, r3, r4>>[reached]
  IN  [threw |-> last.threw, dom |-> last.dom,
       called |-> SubSeq(order, 1, reached)]

(***************************************************************************)
(* Responses of the analysis backend                                       *)
(***************************************************************************)

\* A complete AnalysisResult.
FullDoc ==
  Obj([page_metadata |-> Obj([url |-> Str("http://a")]),
       executive_summary |->
         Obj([overall_llm_readiness_score |-> Num(820),
              verdict |-> Str("Ready"),
              main_issue |-> Str("thin content"),
              top_3_fixes |-> Arr(<<Str("add summary")>>)]),
       llm_interpretation |->
         Obj([primary_topic |-> Str("topic A"),
              secondary_topics |-> Arr(<<Str("t1")>>),
              detected_intent |-> Str("inform"),
              summary_llm_generated |-> Str("about A"),
              key_claims_llm_detected |-> Arr(<<Str("claim 1")>>),
              confidence_level |-> Str("high")]),
       summary_block |->
         Obj([score |-> Num(80), quality |-> Str("good"),
              recommended_summary_block |-> Str("summary A")]),
       definitions_block |->
         Obj([score |-> Num(40),
              recommended_definitions |->
                Arr(<<Obj([term |-> Str("LLM"), definition |-> Str("a model")])>>),
              missing_critical_terms |-> Arr(<<Str("RAG")>>)]),
       faq_block |->
         Obj([score |-> Num(60),
              recommended_faqs |->
                Arr(<<Obj([q |-> Str("what?"), a |-> Str("this")])>>)]),
       canonical_resources_block |->
         Obj([score |-> Num(50),
              recommended_resources |->
                Arr(<<Obj([url |-> Str("http://r"), title |-> Str("R")])>>),
              why_it_matters |-> Str("context")]),
       score_matrix |->
         Obj([summary_block |-> Num(80), definitions |-> Num(40),
              faq |-> Num(60), fanout_match |-> Num(55),
              canonical_resources |-> Num(50), structure |-> Num(120),
              clarity |-> Num(73), eeat |-> Num(-10),
              final_score |-> Num(820)]),
       fanout_query_analysis |->
         Obj([sub_questions_generated |-> Arr(<<Str("q1")>>),
              coverage_score |-> Num(55),
              main_gaps |-> Arr(<<Str("gap 1")>>)]),
       clarity_readability |->
         Obj([score |-> Num(73),
              issues |-> Arr(<<Str("long sentences")>>),
              fixes |-> Arr(<<Str("shorten")>>)]),
       eeat_block |->
         Obj([score |-> Num(30), author_info_found |-> Bool(TRUE),
              expertise_visibility |-> Str("low"),
              experience_signals |-> Str("few"),
              trust_signals |-> Str("some"),
              missing_elements |-> Arr(<<Str("bio"), Str("sources")>>)]),
       fix_roadmap |->
         Obj([immediate_fixes_next_24h |-> Arr(<<Str("fix now")>>),
              medium_priority_next_7_days |-> Arr(<<Str("fix soon")>>),
              long_term_next_30_days |-> Arr(<<Str("fix later")>>)])])

TopFields == DOMAIN FullDoc.f

\* The value v with the value at `path` (a sequence of keys) replaced by x.
RECURSIVE SetPath(_, _, _)
SetPath(v, path, x) ==
  IF Len(path) = 0 THEN x
  ELSE IF v.t = "object" /\ Head(path) \in DOMAIN v.f
  THEN Obj([v.f EXCEPT ![Head(path)] = SetPath(v.f[Head(path)], Tail(path), x)])
  ELSE v

\* Every field of the document: the top-level ones and those nested in them.
Paths ==
  {<<k>> : k \in TopFields} \cup
  UNION {{<<k, j>> : j \in DOMAIN FullDoc.f[k].f} : k \in TopFields}

(***************************************************************************)
(* Bounds                                                                  *)
(***************************************************************************)
\* Calls of analyzeUrl in one behaviour.
MaxCalls == 2
\* Whitespace characters typed on each side of the URL.
MaxPad == 1
\* Fields removed together from a complete AnalysisResult.
MaxAbsent == 2
\* How far, in tenths, a 0-10 score is taken below 0 and above 10.
MaxOver == 3
\* How far, in tenths, final_score is taken on each side of the threshold 60.
MaxMargin == 2

(***************************************************************************)
(* The page                                                                *)
(***************************************************************************)
VARIABLES
  urlInput,     \* urlInput.value, a sequence of characters
  statusText,   \* [textContent, color] of #status-text
  loader,       \* [hidden]: whether #loader carries the class "hidden"
  analyzeBtn,   \* [disabled, textContent] of #analyze-btn
  dom,          \* the result containers
  tasks,        \* the activations of analyzeUrl that reached fetch
  net,          \* the requests handed to fetch, in order
  calls,        \* number of calls of analyzeUrl so far
  submissions,  \* number of those calls whose field held a non-blank URL
  resultsWrapper, \* [hidden]: whether #results-wrapper carries "hidden"
  ev            \* the handler that ran last and how it ended

vars ==
  <<urlInput, statusText, loader, analyzeBtn, dom, tasks, net, calls,
    submissions, resultsWrapper, ev>>

Whitespace == {" "}

\* The page address the user types.
Urls == {<<"a">>}

Spaces(n) == [i \in 1..n |-> " "]

\* The values the URL field can hold: nothing or a URL, padded with whitespace.
UrlValues ==
  {Spaces(l) \o core \o Spaces(r) :
     l \in 0..MaxPad, r \in 0..MaxPad, core \in Urls \cup {<<>>}}

\* data-sample-url of the sample links; the handler ignores an empty one.
SampleUrls == {<<"b">>, <<" ">>}

\* String.prototype.trim
RECURSIVE TrimStart(_)
TrimStart(s) ==
  IF Len(s) > 0 /\ Head(s) \in Whitespace THEN TrimStart(Tail(s)) ELSE s

RECURSIVE TrimEnd(_)
TrimEnd(s) ==
  IF Len(s) > 0 /\ s[Len(s)] \in Whitespace
  THEN TrimEnd(SubSeq(s, 1, Len(s) - 1)) ELSE s

\* trim() left out: the raw field value is used.
trimOmitted(s) == s

trim(s) == TrimEnd(TrimStart(s))

\* The markup of the page before any script ran (not part of the script).
InitialMarkup == "initial markup"

InitialDom ==
  [arcScore |-> InitialMarkup, scoreAio |-> InitialMarkup,
   scoreAeo |-> InitialMarkup, scoreGeo |-> InitialMarkup,
   llmView |-> [rendered |-> FALSE], evaluation |-> [rendered |-> FALSE],
   summaryBlock |-> [rendered |-> FALSE],
   definitionsBlock |-> [rendered |-> FALSE],
   faqBlock |-> [rendered |-> FALSE], canonicalBlock |-> [rendered |-> FALSE]]

ErrorColor == "#f97373"
MutedColor == "var(--muted)"

setStatus(message, isError) ==
  [textContent |-> message,
   color |-> IF isError THEN ErrorColor ELSE MutedColor]

\* setLoading whose `else` branch is lost: the loading state is never cleared.
setLoadingNeverCleared(isLoading) ==
  [loader |-> [hidden |-> FALSE],
   analyzeBtn |-> [disabled |-> TRUE, textContent |-> "Analyzing..."]]

setLoading(isLoading) ==
  IF isLoading
  THEN [loader |-> [hidden |-> FALSE],
        analyzeBtn |-> [disabled |-> TRUE, textContent |-> "Analyzing..."]]
  ELSE [loader |-> [hidden |-> TRUE],
        analyzeBtn |-> [disabled |-> FALSE, textContent |-> "Run analysis"]]

API_BASE == "http://127.0.0.1:8000"

\* The request analyzeUrl passes to fetch.
AnalyzeRequest(url) ==
  [method |-> "POST", url |-> API_BASE \o "/analyze",
   contentType |-> "application/json", body |-> [url |-> url]]

\* A retry: the request is sent a second time.
fetchWithRetry(log, url) == Append(Append(log, AnalyzeRequest(url)), AnalyzeRequest(url))

\* fetch(...) hands one request to the network.
fetch(log, url) == Append(log, AnalyzeRequest(url))

Init ==
  /\ urlInput = <<>>
  /\ statusText = [textContent |-> "", color |-> MutedColor]
  /\ loader = [hidden |-> TRUE]
  /\ analyzeBtn = [disabled |-> FALSE, textContent |-> "Run analysis"]
  /\ dom = InitialDom
  /\ tasks = <<>>
  /\ net = <<>>
  /\ calls = 0
  /\ submissions = 0
  /\ resultsWrapper = [hidden |-> FALSE]
  /\ ev = [op |-> "load"]

NonBlank(value) == \E i \in 1..Len(value) : value[i] \notin Whitespace

\* analyzeUrl up to its first await, with `value` in the URL field.
analyzeUrl(value) ==
  LET url == trim(value)
  IN  /\ calls < MaxCalls
      /\ calls' = calls + 1
      /\ submissions' = submissions + (IF NonBlank(value) THEN 1 ELSE 0)
      /\ urlInput' = value
      /\ UNCHANGED resultsWrapper
      /\ IF url = <<>>
         THEN /\ statusText' = setStatus("Enter a full page URL to analyze.", TRUE)
              /\ ev' = [op |-> "analyzeUrl", kind |-> "validation"]
              /\ UNCHANGED <<loader, analyzeBtn, dom, tasks, net>>
         ELSE /\ statusText' = setStatus("Sending page to LLM engine...", FALSE)
              /\ loader' = setLoading(TRUE).loader
              /\ analyzeBtn' = setLoading(TRUE).analyzeBtn
              /\ net' = fetch(net, url)
              /\ tasks' = Append(tasks, [pc |-> "fetch", status |-> 0])
              /\ ev' = [op |-> "analyzeUrl", kind |-> "request"]
              /\ UNCHANGED dom

\* Click on the button, with `value` typed in the field; a disabled button
\* dispatches no click.
ClickAnalyze ==
  /\ ~analyzeBtn.disabled
  /\ \E value \in UrlValues : analyzeUrl(value)

\* The Enter key ignored while the button is disabled: a re-entrancy guard.
PressEnterGuarded ==
  /\ ~analyzeBtn.disabled
  /\ \E value \in UrlValues : analyzeUrl(value)

\* Enter in the URL field, with `value` typed in it.
PressEnter ==
  /\ \E value \in UrlValues : analyzeUrl(value)

\* Click on a sample link: it fills the field and calls analyzeUrl.
ClickSample ==
  /\ \E sampleUrl \in SampleUrls : analyzeUrl(sampleUrl)

(***************************************************************************)
(* Settling of a request                                                   *)
(***************************************************************************)
Statuses == {200, 404}

\* response.ok with only the 5xx statuses taken as errors.
OkBelow500(status) == status < 500

\* response.ok taken as true for every status.
OkAlways(status) == TRUE

\* response.ok
Ok(status) == status >= 200 /\ status <= 299

\* A response body: absent, text that is no JSON, or JSON text (its value).
NoBody == [kind |-> "none"]
NonJsonBody == [kind |-> "text"]
JsonBody(v) == [kind |-> "json", value |-> v]

ErrorBodies ==
  {NoBody, NonJsonBody} \cup
  {JsonBody(v) : v \in {EmptyObject, Null,
                        Obj([detail |-> Str("bad url")]),
                        Obj([detail |-> EmptyArray])}}

\* An AnalysisResult that lacks the score matrix, the LLM interpretation and
\* the sub-scores, and differs from FullDoc where it has content.
SparseDoc ==
  Obj([page_metadata |-> Obj([url |-> Str("http://b")]),
       faq_block |-> Obj([recommended_faqs |-> EmptyArray]),
       clarity_readability |-> EmptyObject,
       summary_block |-> Obj([recommended_summary_block |-> Str("summary B")])])

\* FullDoc with one substructure of the wrong type.
NullSummaryDoc == SetPath(FullDoc, <<"executive_summary">>, Null)

WellFormedDocs == {FullDoc, SparseDoc}
MalformedDocs == {NullSummaryDoc, Null}
Docs == WellFormedDocs \cup MalformedDocs

OkBodies == {NoBody, NonJsonBody} \cup {JsonBody(v) : v \in Docs}

\* Messages of the exceptions the platform raises (the wording is the engine's).
FetchFailedMessage == "Failed to fetch"
NullReadMessage == "Cannot read properties of null"
JsonSyntaxMessage == "Unexpected token in JSON"
RenderErrorMessage == "Cannot read properties of null"

\* `await response.json().catch(() => ({}))`
ErrorJson(body) == IF body.kind = "json" THEN body.value ELSE EmptyObject

\* The message of the exception the `!response.ok` branch ends with:
\* new Error(err.detail || `Request failed: ${response.status}`), or the
\* TypeError of reading `detail` of null.
NotOkMessage(status, body) ==
  LET err == ErrorJson(body)
  IN  IF Nullish(err) THEN NullReadMessage
      ELSE IF Truthy(Get(err, "detail")) THEN ToStr(Get(err, "detail"))
      ELSE "Request failed: " \o ToString(status)

\* The catch block without its `|| "Something went wrong."` fallback.
CatchStatusNoFallback(message) == setStatus(message, TRUE)

\* catch (err) { setStatus(err.message || "Something went wrong.", true) }
CatchStatus(message) ==
  setStatus(IF message # "" THEN message ELSE "Something went wrong.", TRUE)

\* The catch and finally blocks of task i, entered with an exception.
Fail(i, message, outcome) ==
  /\ statusText' = CatchStatus(message)
  /\ loader' = setLoading(FALSE).loader
  /\ analyzeBtn' = setLoading(FALSE).analyzeBtn
  /\ tasks' = [tasks EXCEPT ![i] = [pc |-> "done", status |-> @.status]]
  /\ ev' = outcome

\* fetch rejects: the request never got a response.
NetworkFailure(i) ==
  /\ i \in 1..Len(tasks)
  /\ tasks[i].pc = "fetch"
  /\ Fail(i, FetchFailedMessage, [op |-> "settle", kind |-> "network"])
  /\ UNCHANGED <<urlInput, dom, net, calls, submissions, resultsWrapper>>

\* fetch resolves with a response; the handler goes on to await its body.
ResponseArrives(i) ==
  /\ i \in 1..Len(tasks)
  /\ tasks[i].pc = "fetch"
  /\ \E status \in Statuses :
       tasks' = [tasks EXCEPT ![i] = [pc |-> IF Ok(status) THEN "json" ELSE "errjson",
                                      status |-> status]]
  /\ UNCHANGED <<urlInput, statusText, loader, analyzeBtn, dom, net, calls,
                 submissions, resultsWrapper, ev>>

\* The body of a non-2xx response settles.
ErrorBodySettles(i) ==
  /\ i \in 1..Len(tasks)
  /\ tasks[i].pc = "errjson"
  /\ \E body \in ErrorBodies :
       Fail(i, NotOkMessage(tasks[i].status, body),
            [op |-> "settle", kind |-> "http_error",
             status |-> tasks[i].status, body |-> body])
  /\ UNCHANGED <<urlInput, dom, net, calls, submissions, resultsWrapper>>

\* The body of a 2xx response settles.
OkBodySettles(i) ==
  /\ i \in 1..Len(tasks)
  /\ tasks[i].pc = "json"
  /\ \E body \in OkBodies :
       IF body.kind # "json"
       THEN /\ Fail(i, JsonSyntaxMessage,
                    [op |-> "settle", kind |-> "parse_error"])
            /\ UNCHANGED dom
       ELSE LET r == renderResults(body.value, dom)
            IN  /\ dom' = r.dom
                /\ IF r.threw
                   THEN Fail(i, RenderErrorMessage,
                             [op |-> "settle", kind |-> "render_error",
                              data |-> body.value, called |-> r.called])
                   ELSE /\ statusText' = setStatus("Analysis complete.", FALSE)
                        /\ loader' = setLoading(FALSE).loader
                        /\ analyzeBtn' = setLoading(FALSE).analyzeBtn
                        /\ tasks' = [tasks EXCEPT ![i] =
                                       [pc |-> "done", status |-> @.status]]
                        /\ ev' = [op |-> "settle", kind |-> "success",
                                  data |-> body.value, called |-> r.called,
                                  task |-> i]
  /\ UNCHANGED <<urlInput, net, calls, submissions, resultsWrapper>>

Settle ==
  \E i \in 1..MaxCalls :
    \/ NetworkFailure(i)
    \/ ResponseArrives(i)
    \/ ErrorBodySettles(i)
    \/ OkBodySettles(i)

Next ==
  \/ ClickAnalyze
  \/ PressEnter
  \/ ClickSample
  \/ Settle

Spec == Init /\ [][Next]_vars

\* Every request settles: fetch and the body read each come to an end.
FairSpec ==
  /\ Spec
  /\ \A i \in 1..MaxCalls :
       /\ WF_vars(NetworkFailure(i) \/ ResponseArrives(i))
       /\ WF_vars(ErrorBodySettles(i))
       /\ WF_vars(OkBodySettles(i))

TypeOK ==
  /\ urlInput \in UrlValues \cup SampleUrls
  /\ loader.hidden \in BOOLEAN
  /\ analyzeBtn.disabled \in BOOLEAN
  /\ calls \in 0..MaxCalls
  /\ Len(tasks) <= calls

(***************************************************************************)
(* renderResults on its own: one result with fields absent, rendered into  *)
(* containers that are untouched or hold an earlier complete result.       *)
(***************************************************************************)

\* FullDoc with up to n of its fields (at either level) removed.
RECURSIVE Removed(_)
Removed(n) ==
  IF n = 0 THEN {FullDoc}
  ELSE LET prev == Removed(n - 1)
       IN  prev \cup {SetPath(d, p, Undef) : d \in prev, p \in Paths}

\* FullDoc with every substructure present but empty.
HollowDoc == Obj([k \in TopFields |-> EmptyObject])

\* FullDoc with an item of each list that lacks all its fields.
EmptyItemsDoc ==
  SetPath(SetPath(SetPath(FullDoc,
    <<"definitions_block", "recommended_definitions">>, Arr(<<EmptyObject>>)),
    <<"faq_block", "recommended_faqs">>, Arr(<<EmptyObject>>)),
    <<"canonical_resources_block", "recommended_resources">>, Arr(<<EmptyObject>>))

AbsentDocs ==
  Removed(MaxAbsent) \cup {EmptyObject, HollowDoc, EmptyItemsDoc, SparseDoc, Null}

RenderInit ==
  /\ urlInput = <<>>
  /\ statusText = [textContent |-> "", color |-> MutedColor]
  /\ loader = [hidden |-> TRUE]
  /\ analyzeBtn = [disabled |-> FALSE, textContent |-> "Run analysis"]
  /\ dom \in {InitialDom, renderResults(FullDoc, InitialDom).dom}
  /\ tasks = <<>>
  /\ net = <<>>
  /\ calls = 0
  /\ submissions = 0
  /\ resultsWrapper = [hidden |-> FALSE]
  /\ \E data \in AbsentDocs : ev = [op |-> "input", data |-> data]

RenderInput ==
  /\ ev.op = "input"
  /\ LET r == renderResults(ev.data, dom)
     IN  /\ dom' = r.dom
         /\ ev' = [op |-> "render", data |-> ev.data, threw |-> r.threw,
                   called |-> r.called]
  /\ UNCHANGED <<urlInput, statusText, loader, analyzeBtn, tasks, net, calls,
                 submissions, resultsWrapper>>

RenderNext == RenderInput

RenderSpec == RenderInit /\ [][RenderNext]_vars

(***************************************************************************)
(* renderResults on results that differ in one sub-score, in the verdict   *)
(* and in the final score.                                                 *)
(***************************************************************************)

\* A 0-10 sub-score as the backend may send it: below 0, within the scale,
\* above 10, absent, null or text.
ScoreInputs ==
  {Num(n) : n \in (0 - MaxOver)..(100 + MaxOver)} \cup {Undef, Null, Str("7")}

VerdictInputs ==
  {Str(v) : v \in {"Ready", "Partially Ready", "ready", "partially ready",
                   "good", "excellent", "Not Ready", ""}} \cup {Undef}

\* final_score (0-100) around the LLM-ready threshold, at its ends, or absent.
FinalInputs ==
  {Num(n) : n \in (600 - MaxMargin)..(600 + MaxMargin)} \cup
  {Num(0), Num(820), Undef}

EvalDoc(score, verdict, final) ==
  SetPath(SetPath(SetPath(FullDoc,
    <<"score_matrix", "clarity">>, score),
    <<"executive_summary", "verdict">>, verdict),
    <<"score_matrix", "final_score">>, final)

EvalDocs ==
  {EvalDoc(s, v, f) : s \in ScoreInputs, v \in VerdictInputs, f \in FinalInputs}

\* A complete result of the older schema, which backup/script.js reads.
BackupFullDoc ==
  Obj([llm_view |->
         Obj([primary_topic |-> Str("topic A"),
              primary_intent |-> Str("inform"),
              audience |-> Str("engineers"),
              user_questions_answered |-> Arr(<<Str("what is A?")>>),
              user_questions_missing |-> Arr(<<Str("why A?")>>),
              key_facts |-> Arr(<<Str("fact 1")>>),
              important_entities |-> Arr(<<Str("A")>>)]),
       evaluation |->
         Obj([scores |->
                Obj([intent_clarity |-> Num(73), coverage |-> Num(55),
                     structure |-> Num(120), definitions |-> Num(40),
                     answerability |-> Num(60), trust |-> Num(-10),
                     overall |-> Num(780)]),
              verdict |-> Str("good"),
              issues |-> Arr(<<Str("thin content")>>),
              recommendations |-> Arr(<<Str("add summary")>>),
              priority_fixes |-> Arr(<<Str("fix now")>>),
              canonical_score |-> Num(50),
              canonical_issues |-> Arr(<<Str("no pillar page")>>),
              canonical_recommendations |-> Arr(<<Str("link the pillar")>>),
              llm_ready |-> Bool(TRUE)]),
       blocks |->
         Obj([summary_block |->
                Obj([purpose |-> Str("explain A"), audience |-> Str("engineers"),
                     key_points |-> Arr(<<Str("point 1")>>)]),
              definitions_block |->
                Arr(<<Obj([term |-> Str("LLM"), definition |-> Str("a model")])>>),
              faq_block |->
                Arr(<<Obj([question |-> Str("what?"), answer |-> Str("this")])>>),
              canonical_resources |->
                Arr(<<Obj([url |-> Str("http://r"), title |-> Str("R")])>>)])])

\* evaluation.scores.overall (0-10) in hundredths: from below 0 to above 10,
\* absent, null or text.
OverallInputs ==
  {Num(h) : h \in (0 - MaxOver)..(1000 + MaxOver)} \cup
  {Undef, Null, Str("n/a")}

\* evaluation.llm_ready as the backend may send it.
LlmReadyInputs == {Bool(TRUE), Bool(FALSE), Undef, Null, Str("yes"), Num(0)}

BackupEvalDocs ==
  {SetPath(BackupFullDoc, <<"evaluation", "scores", "overall">>, o) :
     o \in OverallInputs} \cup
  {SetPath(SetPath(BackupFullDoc, <<"evaluation", "verdict">>, v),
           <<"evaluation", "llm_ready">>, r) :
     v \in VerdictInputs, r \in LlmReadyInputs} \cup
  {SetPath(BackupFullDoc, <<"evaluation">>, Undef),
   SetPath(BackupFullDoc, <<"evaluation">>, Null),
   SetPath(BackupFullDoc, <<"evaluation", "scores">>, Undef),
   SetPath(BackupFullDoc, <<"evaluation", "scores">>, Null),
   EmptyObject, Null}

EvalInit ==
  /\ urlInput = <<>>
  /\ statusText = [textContent |-> "", color |-> MutedColor]
  /\ loader = [hidden |-> TRUE]
  /\ analyzeBtn = [disabled |-> FALSE, textContent |-> "Run analysis"]
  /\ tasks = <<>>
  /\ net = <<>>
  /\ calls = 0
  /\ submissions = 0
  /\ resultsWrapper = [hidden |-> FALSE]
  /\ \/ /\ dom = InitialDom
        /\ \E data \in EvalDocs : ev = [op |-> "input", data |-> data]
     \/ /\ dom \in {InitialDom, backup_renderResults(BackupFullDoc, InitialDom).dom}
        /\ \E data \in BackupEvalDocs :
             ev = [op |-> "backup_input", data |-> data]

\* renderResults of backup/script.js applied to the input.
BackupRenderInput ==
  /\ ev.op = "backup_input"
  /\ LET r == backup_renderResults(ev.data, dom)
     IN  /\ dom' = r.dom
         /\ ev' = [op |-> "backup_render", data |-> ev.data, threw |-> r.threw,
                   called |-> r.called, before |-> dom]
  /\ UNCHANGED <<urlInput, statusText, loader, analyzeBtn, tasks, net, calls,
                 submissions, resultsWrapper>>

EvalNext == RenderInput \/ BackupRenderInput

EvalSpec == EvalInit /\ [][EvalNext]_vars

(***************************************************************************)
(* The submission lifecycle of backup/script.js: as the current script's,  *)
(* with the results wrapper hidden at submission and shown after a         *)
(* rendered result, and without the sample links.                          *)
(***************************************************************************)

\* setLoading of backup/script.js: the idle button reads "Analyze".
backup_setLoading(isLoading) ==
  IF isLoading
  THEN [loader |-> [hidden |-> FALSE],
        analyzeBtn |-> [disabled |-> TRUE, textContent |-> "Analyzing..."]]
  ELSE [loader |-> [hidden |-> TRUE],
        analyzeBtn |-> [disabled |-> FALSE, textContent |-> "Analyze"]]

\* The submission without the hiding of the wrapper.
backup_hideResultsOmitted(wrapper) == wrapper

\* resultsWrapper.classList.add("hidden")
backup_hideResults(wrapper) == [wrapper EXCEPT !.hidden = TRUE]

\* resultsWrapper.classList.remove("hidden")
backup_showResults(wrapper) == [wrapper EXCEPT !.hidden = FALSE]

\* The markup's class of the wrapper is not the script's to decide.
BackupInit ==
  /\ urlInput = <<>>
  /\ statusText = [textContent |-> "", color |-> MutedColor]
  /\ loader = [hidden |-> TRUE]
  /\ analyzeBtn = [disabled |-> FALSE, textContent |-> "Analyze"]
  /\ dom = InitialDom
  /\ tasks = <<>>
  /\ net = <<>>
  /\ calls = 0
  /\ submissions = 0
  /\ resultsWrapper \in {[hidden |-> TRUE], [hidden |-> FALSE]}
  /\ ev = [op |-> "load"]

\* analyzeUrl of backup/script.js up to its first await.
backup_analyzeUrl(value) ==
  LET url == trim(value)
  IN  /\ calls < MaxCalls
      /\ calls' = calls + 1
      /\ submissions' = submissions + (IF NonBlank(value) THEN 1 ELSE 0)
      /\ urlInput' = value
      /\ IF url = <<>>
         THEN /\ statusText' = setStatus("Enter a URL to analyze.", TRUE)
              /\ ev' = [op |-> "analyzeUrl", kind |-> "validation"]
              /\ UNCHANGED <<loader, analyzeBtn, dom, tasks, net, resultsWrapper>>
         ELSE /\ statusText' = setStatus("Sending page to LLM engine...", FALSE)
              /\ loader' = backup_setLoading(TRUE).loader
              /\ analyzeBtn' = backup_setLoading(TRUE).analyzeBtn
              /\ resultsWrapper' = backup_hideResults(resultsWrapper)
              /\ net' = fetch(net, url)
              /\ tasks' = Append(tasks, [pc |-> "fetch", status |-> 0])
              /\ ev' = [op |-> "analyzeUrl", kind |-> "request"]
              /\ UNCHANGED dom

BackupClickAnalyze ==
  /\ ~analyzeBtn.disabled
  /\ \E value \in UrlValues : backup_analyzeUrl(value)

BackupPressEnter ==
  /\ \E value \in UrlValues : backup_analyzeUrl(value)

\* A result of the older schema without evaluation and llm_view.
BackupSparseDoc ==
  Obj([blocks |-> Obj([faq_block |-> EmptyArray])])

\* BackupFullDoc with a list of the wrong type.
BackupNullIssuesDoc == SetPath(BackupFullDoc, <<"evaluation", "issues">>, Null)

BackupDocs == {BackupFullDoc, BackupSparseDoc, BackupNullIssuesDoc, Null}

BackupOkBodies == {NoBody, NonJsonBody} \cup {JsonBody(v) : v \in BackupDocs}

\* The catch and finally blocks of task i of backup/script.js.
backup_Fail(i, message, outcome) ==
  /\ statusText' = CatchStatus(message)
  /\ loader' = backup_setLoading(FALSE).loader
  /\ analyzeBtn' = backup_setLoading(FALSE).analyzeBtn
  /\ tasks' = [tasks EXCEPT ![i] = [pc |-> "done", status |-> @.status]]
  /\ ev' = outcome

BackupNetworkFailure(i) ==
  /\ i \in 1..Len(tasks)
  /\ tasks[i].pc = "fetch"
  /\ backup_Fail(i, FetchFailedMessage, [op |-> "settle", kind |-> "network"])
  /\ UNCHANGED <<urlInput, dom, net, calls, submissions, resultsWrapper>>

BackupResponseArrives(i) ==
  /\ i \in 1..Len(tasks)
  /\ tasks[i].pc = "fetch"
  /\ \E status \in Statuses :
       tasks' = [tasks EXCEPT ![i] = [pc |-> IF Ok(status) THEN "json" ELSE "errjson",
                                      status |-> status]]
  /\ UNCHANGED <<urlInput, statusText, loader, analyzeBtn, dom, net, calls,
                 submissions, resultsWrapper, ev>>

BackupErrorBodySettles(i) ==
  /\ i \in 1..Len(tasks)
  /\ tasks[i].pc = "errjson"
  /\ \E body \in ErrorBodies :
       backup_Fail(i, NotOkMessage(tasks[i].status, body),
                   [op |-> "settle", kind |-> "http_error",
                    status |-> tasks[i].status, body |-> body])
  /\ UNCHANGED <<urlInput, dom, net, calls, submissions, resultsWrapper>>

BackupOkBodySettles(i) ==
  /\ i \in 1..Len(tasks)
  /\ tasks[i].pc = "json"
  /\ \E body \in BackupOkBodies :
       IF body.kind # "json"
       THEN /\ backup_Fail(i, JsonSyntaxMessage,
                           [op |-> "settle", kind |-> "parse_error"])
            /\ UNCHANGED <<dom, resultsWrapper>>
       ELSE LET r == backup_renderResults(body.value, dom)
            IN  /\ dom' = r.dom
                /\ IF r.threw
                   THEN /\ backup_Fail(i, RenderErrorMessage,
                                       [op |-> "settle", kind |-> "render_error",
                                        data |-> body.value, called |-> r.called])
                        /\ UNCHANGED resultsWrapper
                   ELSE /\ resultsWrapper' = backup_showResults(resultsWrapper)
                        /\ statusText' = setStatus("Analysis complete.", FALSE)
                        /\ loader' = backup_setLoading(FALSE).loader
                        /\ analyzeBtn' = backup_setLoading(FALSE).analyzeBtn
                        /\ tasks' = [tasks EXCEPT ![i] =
                                       [pc |-> "done", status |-> @.status]]
                        /\ ev' = [op |-> "settle", kind |-> "success",
                                  data |-> body.value, called |-> r.called,
                                  task |-> i]
  /\ UNCHANGED <<urlInput, net, calls, submissions>>

BackupSettle ==
  \E i \in 1..MaxCalls :
    \/ BackupNetworkFailure(i)
    \/ BackupResponseArrives(i)
    \/ BackupErrorBodySettles(i)
    \/ BackupOkBodySettles(i)

BackupNext ==
  \/ BackupClickAnalyze
  \/ BackupPressEnter
  \/ BackupSettle

BackupSpec == BackupInit /\ [][BackupNext]_vars

(***************************************************************************)
(* Properties                                                              *)
(***************************************************************************)
InFlight(i) == i \in 1..Len(tasks) /\ tasks[i].pc # "done"

ValidationStatus ==
  [textContent |-> "Enter a full page URL to analyze.", color |-> ErrorColor]

\* C1: a call of analyzeUrl with an empty or all-whitespace URL field issues
\* no request, starts no task and sets the status to the validation message in
\* the error colour, whatever the state it is made in.
C1_BlankUrlIssuesNoRequest ==
  [][(calls' # calls /\ ~NonBlank(urlInput'))
       => /\ net' = net
          /\ tasks' = tasks
          /\ statusText' = ValidationStatus]_vars

\* C1 witness: an all-whitespace URL was submitted while a request is in flight.
C1_Witness ==
  /\ ev.op = "analyzeUrl" /\ ev.kind = "validation"
  /\ Len(urlInput) > 0
  /\ \E i \in 1..Len(tasks) : InFlight(i)
  /\ statusText = ValidationStatus

\* u is value without its leading and trailing whitespace.
IsTrimmed(value, u) ==
  \E i, j \in 1..Len(value) :
    /\ value[i] \notin Whitespace /\ value[j] \notin Whitespace
    /\ \A k \in 1..Len(value) : (k < i \/ k > j) => value[k] \in Whitespace
    /\ u = SubSeq(value, i, j)

IsAnalyzePost(req, value) ==
  /\ req.method = "POST"
  /\ req.url = "http://127.0.0.1:8000/analyze"
  /\ req.contentType = "application/json"
  /\ IsTrimmed(value, req.body.url)

\* C2: a call of analyzeUrl with a non-blank URL appends exactly one POST to
\* {API_BASE}/analyze carrying the trimmed URL, no other step issues a request
\* (no retry when a request settles), and the number of requests issued equals
\* the number of non-blank submissions.
C2_OneRequestPerSubmission ==
  /\ [](Len(net) = submissions)
  /\ [][/\ (calls' = calls => net' = net)
        /\ (calls' # calls /\ NonBlank(urlInput')
              => /\ Len(net') = Len(net) + 1
                 /\ SubSeq(net', 1, Len(net)) = net
                 /\ IsAnalyzePost(net'[Len(net')], urlInput'))]_vars

\* C2 witness: two requests were issued, one of them failed, and the field
\* held whitespace around the URL.
C2_Witness ==
  /\ Len(net) = 2 /\ submissions = 2
  /\ ev.op = "settle" /\ ev.kind = "network"
  /\ Len(urlInput) = Len(net[2].body.url) + 2

\* The error body is JSON text of an object that carries a detail message.
HasDetail(body) ==
  /\ body.kind = "json"
  /\ body.value.t = "object"
  /\ Get(body.value, "detail").t = "string"
  /\ Get(body.value, "detail").v # ""

\* C3: after a non-2xx response the status shows the server's detail when the
\* error body is JSON with a detail, and otherwise "Request failed: <status>".
C3_ErrorMessageOfResponse ==
  (ev.op = "settle" /\ ev.kind = "http_error")
    => statusText.textContent =
         IF HasDetail(ev.body) THEN Get(ev.body.value, "detail").v
         ELSE "Request failed: " \o ToString(ev.status)

Failures == {"network", "http_error", "parse_error"}

\* C4: when the handling of a failed request (network failure, non-2xx
\* status, unparseable body) has finished, the status is a non-empty message
\* in the error colour and is not "Analysis complete.".
C4_FailureIsSurfaced ==
  (ev.op = "settle" /\ ev.kind \in Failures)
    => /\ statusText.color = ErrorColor
       /\ statusText.textContent # ""
       /\ statusText.textContent # "Analysis complete."

\* C4 witness: a non-2xx response whose detail gives the Error an empty
\* message has been handled.
C4_Witness ==
  /\ ev.op = "settle" /\ ev.kind = "http_error"
  /\ ev.body = JsonBody(Obj([detail |-> EmptyArray]))
  /\ statusText = [textContent |-> "Something went wrong.", color |-> ErrorColor]

Idle == loader.hidden /\ ~analyzeBtn.disabled

\* C5: every call of analyzeUrl is eventually followed by a state in which
\* the loader is hidden and the button is enabled, provided every request in
\* flight settles.
C5_EveryCallReturnsToIdle ==
  \A k \in 1..MaxCalls : (calls = k) ~> Idle

\* C5 witness: a submission that ended in a render exception left the page idle.
C5_Witness ==
  /\ ev.op = "settle" /\ ev.kind = "render_error"
  /\ calls > 0
  /\ Idle

RECURSIVE GetPath(_, _)
GetPath(v, path) ==
  IF Len(path) = 0 THEN v ELSE GetPath(Get(v, Head(path)), Tail(path))

\* data has the shape of an AnalysisResult: an object whose fields, where
\* present, have the type the schema (FullDoc) gives them.
IsAnalysisResult(data) ==
  /\ data.t = "object"
  /\ \A p \in Paths :
       GetPath(data, p).t \in {"undefined", GetPath(FullDoc, p).t}

AllRenderers ==
  <<"renderArcRank", "renderLlmView", "renderEvaluation", "renderBlocks">>

\* C6: the handling of a 2xx response whose body is a JSON AnalysisResult
\* ends with the loading state cleared, the status "Analysis complete." in
\* the normal colour, and every rendering function called with the result.
C6_SuccessCompletes ==
  (ev.op = "settle" /\ ev.kind \in {"success", "render_error"}
     /\ IsAnalysisResult(ev.data))
    => /\ Idle
       /\ statusText = [textContent |-> "Analysis complete.", color |-> MutedColor]
       /\ ev.called = AllRenderers

\* C6 witness: a result with missing substructures was handled while the
\* other request was still in flight.
C6_Witness ==
  /\ ev.op = "settle" /\ ev.kind = "success"
  /\ ev.data = SparseDoc
  /\ \E i \in 1..Len(tasks) : InFlight(i)
  /\ Idle

\* C7: renderResults raises no exception on a result from which fields are
\* absent, at either level, nor on the empty object or a null document.
C7_AbsentFieldsNeverThrow ==
  ev.op = "render" => ~ev.threw

\* C7 witness: a result whose substructures are all empty was rendered by
\* every rendering function.
C7_Witness ==
  /\ ev.op = "render" /\ ev.data = HollowDoc
  /\ ~ev.threw /\ ev.called = AllRenderers
  /\ dom.evaluation.rendered

Missing(data, path) == GetPath(data, path).t = "undefined"

\* The fields of part k of data, where present, have the schema's types.
PartWellFormed(data, k) ==
  \A p \in Paths :
    p[1] = k => GetPath(data, p).t \in {"undefined", GetPath(FullDoc, p).t}

JsonHandled == ev.op = "settle" /\ ev.kind \in {"success", "render_error"}

\* renderResults has run on ev.data, in a response handler or on its own.
RenderRan == JsonHandled \/ ev.op = "render"

\* renderResults has run on ev.data and returned.
RenderReturned ==
  \/ ev.op = "settle" /\ ev.kind = "success"
  \/ ev.op = "render" /\ ~ev.threw

\* C8: after a 2xx response in which a substructure has the wrong type, the
\* response is rendered without an error, and every block region whose own
\* data is well-formed shows the content of that response.
C8_MalformedFieldIsIsolated ==
  (JsonHandled /\ ev.data.t = "object")
    => /\ ev.kind = "success"
       /\ PartWellFormed(ev.data, "summary_block")
            => dom.summaryBlock = SummaryHtml(Get(ev.data, "summary_block"))
       /\ PartWellFormed(ev.data, "definitions_block")
            => dom.definitionsBlock = DefinitionsHtml(Get(ev.data, "definitions_block"))
       /\ PartWellFormed(ev.data, "faq_block")
            => dom.faqBlock = FaqHtml(Get(ev.data, "faq_block"))
       /\ PartWellFormed(ev.data, "canonical_resources_block")
            => dom.canonicalBlock =
                 CanonicalHtml(Get(ev.data, "canonical_resources_block"))

\* What a score that was not supplied may display; a container no render has
\* written shows the markup's own placeholder.
ZeroOrDash == {"0", "0.0", Dash, InitialMarkup}

BlockScoreShown(region) == IF region.rendered THEN region.score ELSE InitialMarkup

\* C9: after a result that lacks a numeric score is rendered, the display of
\* that score is 0 or the dash, also when an earlier result supplied it.
C9_MissingScoreShowsZeroOrDash ==
  (RenderRan /\ ev.data.t = "object")
    => /\ Missing(ev.data, <<"score_matrix", "final_score">>)
            => dom.arcScore \in ZeroOrDash
       /\ Missing(ev.data, <<"clarity_readability", "score">>)
            => dom.scoreAio \in ZeroOrDash
       /\ Missing(ev.data, <<"faq_block", "score">>)
            => /\ dom.scoreAeo \in ZeroOrDash
               /\ BlockScoreShown(dom.faqBlock) \in ZeroOrDash
       /\ Missing(ev.data, <<"fanout_query_analysis", "coverage_score">>)
            => dom.scoreGeo \in ZeroOrDash
       /\ Missing(ev.data, <<"summary_block", "score">>)
            => BlockScoreShown(dom.summaryBlock) \in ZeroOrDash
       /\ Missing(ev.data, <<"definitions_block", "score">>)
            => BlockScoreShown(dom.definitionsBlock) \in ZeroOrDash
       /\ Missing(ev.data, <<"canonical_resources_block", "score">>)
            => BlockScoreShown(dom.canonicalBlock) \in ZeroOrDash

\* C10: after a successful result that lacks a substructure, the region of
\* that substructure shows placeholder or empty-state text and nothing of an
\* earlier result.
C10_MissingSubstructureShowsPlaceholder ==
  (RenderReturned /\ ev.data.t = "object")
    => /\ Missing(ev.data, <<"llm_interpretation">>)
            => dom.llmView \in {[rendered |-> FALSE], LlmViewHtml(EmptyObject)}
       /\ Missing(ev.data, <<"score_matrix">>)
            => dom.arcScore \in ZeroOrDash
       /\ Missing(ev.data, <<"summary_block">>)
            => dom.summaryBlock = SummaryHtml(Undef)
       /\ Missing(ev.data, <<"definitions_block">>)
            => dom.definitionsBlock = DefinitionsHtml(Undef)
       /\ Missing(ev.data, <<"faq_block">>)
            => dom.faqBlock = FaqHtml(Undef)
       /\ Missing(ev.data, <<"canonical_resources_block">>)
            => dom.canonicalBlock = CanonicalHtml(Undef)

\* The rows of the score bars: label and field of score_matrix.
BarFields ==
  {<<"Summary block", "summary_block">>, <<"Definitions", "definitions">>,
   <<"FAQ", "faq">>, <<"Fanout coverage", "fanout_match">>,
   <<"Canonical resources", "canonical_resources">>,
   <<"Structure", "structure">>, <<"Clarity / readability", "clarity">>,
   <<"EEAT", "eeat">>}

\* The rows of the backup script: label and field of evaluation.scores.
BackupBarFields ==
  {<<"Intent clarity", "intent_clarity">>, <<"Coverage", "coverage">>,
   <<"Structure", "structure">>, <<"Definitions", "definitions">>,
   <<"Answerability", "answerability">>, <<"Trust", "trust">>}

\* clamp(v, 0, 10) * 10 percent as text, v in tenths.
ClampedPercent(v) ==
  (IF v < 0 THEN "0" ELSE IF v > 100 THEN "100" ELSE ToString(v)) \o "%"

BarWidths(html, label) ==
  {html.bars[i].width : i \in {j \in 1..Len(html.bars) : html.bars[j].label = label}}

\* C11: every numeric score of score_matrix is drawn as one bar whose width is
\* clamp(v, 0, 10) * 10 percent, and every bar's width is within 0% and 100%.
C11_BarWidthIsClampedScore ==
  (ev.op \in {"render", "backup_render"} /\ dom.evaluation.rendered)
    => /\ ev.op = "render" => \A row \in BarFields :
            LET v == GetPath(ev.data, <<"score_matrix", row[2]>>)
            IN  v.t = "number"
                  => BarWidths(dom.evaluation, row[1]) = {ClampedPercent(v.v)}
       /\ \A i \in 1..Len(dom.evaluation.bars) :
            dom.evaluation.bars[i].width \in {ToString(p) \o "%" : p \in 0..100}
       /\ (ev.op = "backup_render" /\ ~ev.threw
             /\ GetPath(ev.data, <<"evaluation">>).t = "object")
            => \A row \in BackupBarFields :
                 LET v == GetPath(ev.data, <<"evaluation", "scores", row[2]>>)
                 IN  v.t = "number"
                       => BarWidths(dom.evaluation, row[1]) = {ClampedPercent(v.v)}

\* C11 witness: a score above 10 was drawn as a full bar next to a negative
\* score drawn as an empty one.
C11_Witness ==
  /\ ev.op = "render"
  /\ GetPath(ev.data, <<"score_matrix", "clarity">>) = Num(100 + MaxOver)
  /\ BarWidths(dom.evaluation, "Clarity / readability") = {"100%"}
  /\ BarWidths(dom.evaluation, "EEAT") = {"0%"}

\* The verdict labels the specification lists as positive, in its own
\* spelling and in the capitalised spelling of the backend.
PositiveVerdicts ==
  {"ready", "good", "excellent", "partially ready", "Ready", "Partially Ready"}

GoodPill == "verdict-pill verdict-pill--good"
PoorPill == "verdict-pill verdict-pill--poor"

\* C12: the class of the verdict pill depends on the verdict alone: positive
\* for a verdict of the positive set, negative for every other text, and
\* negative with the dash as the verdict text when the verdict is absent.
C12_VerdictPillClass ==
  (ev.op = "render" /\ dom.evaluation.rendered)
    => LET verdict == GetPath(ev.data, <<"executive_summary", "verdict">>)
           html == dom.evaluation
       IN  /\ (verdict.t = "string" /\ verdict.v \in PositiveVerdicts)
                 => html.verdictClass = GoodPill
           /\ (verdict.t = "string" /\ verdict.v \notin PositiveVerdicts)
                 => html.verdictClass = PoorPill
           /\ verdict.t = "undefined"
                 => html.verdictClass = PoorPill /\ html.verdict = Dash

\* The values JavaScript takes for false in a condition, among the inputs.
FalsyInputs == {Bool(FALSE), Undef, Null, Num(0), Str("")}

\* C13: the LLM-ready flag does not depend on the verdict: the current script
\* shows "Yes" exactly when score_matrix.final_score is at least 60 ("No"
\* when it is lower or missing), the backup script exactly when
\* evaluation.llm_ready is truthy.
C13_LlmReadyIndependentOfVerdict ==
  /\ (ev.op = "render" /\ dom.evaluation.rendered)
       => LET final == GetPath(ev.data, <<"score_matrix", "final_score">>)
          IN  dom.evaluation.llmReady =
                IF final.t = "number" /\ final.v >= 600 THEN "Yes" ELSE "No"
  /\ (ev.op = "backup_render" /\ ~ev.threw
        /\ GetPath(ev.data, <<"evaluation">>).t = "object")
       => dom.evaluation.llmReady =
            IF GetPath(ev.data, <<"evaluation", "llm_ready">>) \in FalsyInputs
            THEN "No" ELSE "Yes"

\* C13 witness: the backup script rendered a positive verdict next to an
\* LLM-ready flag of "No".
C13_Witness ==
  /\ ev.op = "backup_render"
  /\ GetPath(ev.data, <<"evaluation", "verdict">>) = Str("good")
  /\ GetPath(ev.data, <<"evaluation", "llm_ready">>) = Bool(FALSE)
  /\ dom.evaluation.verdictClass = GoodPill
  /\ dom.evaluation.llmReady = "No"

\* C14: after a successful result is rendered, final_score 82 shows "82" in
\* the score header, clarity_readability.score 7.3 shows "7.3" as the AIO
\* sub-score together with a clarity bar at 73%, and an empty recommended_faqs
\* shows "No FAQ suggestions generated." in the FAQ region.
C14_EndToEndDisplay ==
  (RenderReturned /\ ev.data.t = "object")
    => /\ GetPath(ev.data, <<"score_matrix", "final_score">>) = Num(820)
            => dom.arcScore = "82"
       /\ GetPath(ev.data, <<"clarity_readability", "score">>) = Num(73)
            => /\ dom.scoreAio = "7.3"
               /\ "73%" \in BarWidths(dom.evaluation, "Clarity / readability")
       /\ GetPath(ev.data, <<"faq_block", "recommended_faqs">>) = EmptyArray
            => dom.faqBlock.empty_text = "No FAQ suggestions generated."

\* The block regions show data, and so does the score header when data
\* carries a score matrix.
ShowsResult(data) ==
  /\ dom.summaryBlock = SummaryHtml(Get(data, "summary_block"))
  /\ dom.definitionsBlock = DefinitionsHtml(Get(data, "definitions_block"))
  /\ dom.faqBlock = FaqHtml(Get(data, "faq_block"))
  /\ dom.canonicalBlock = CanonicalHtml(Get(data, "canonical_resources_block"))
  /\ dom.evaluation = EvaluationHtml(EvaluationCtx(data))
  /\ GetPath(data, <<"score_matrix", "final_score">>).t = "number"
       => dom.arcScore =
            NumToString(GetPath(data, <<"score_matrix", "final_score">>).v)

\* C15: while a request is outstanding a further submission by the Enter key
\* or a sample link is still possible, and the containers show the result of
\* whichever response was handled last, whatever the order of submission.
C15_LastArrivalWins ==
  /\ ((\E i \in 1..Len(tasks) : InFlight(i)) /\ calls < MaxCalls)
       => ENABLED PressEnter /\ ENABLED ClickSample
  /\ (ev.op = "settle" /\ ev.kind = "success" /\ ev.data.t = "object")
       => ShowsResult(ev.data)

\* C15 witness: the response of the first submission was handled after the
\* second submission's response and is what the containers show.
C15_Witness ==
  /\ Len(tasks) = 2 /\ Len(net) = 2
  /\ tasks[2].pc = "done" /\ tasks[2].status = 200
  /\ ev.op = "settle" /\ ev.kind = "success" /\ ev.task = 1
  /\ ev.data = FullDoc
  /\ ShowsResult(FullDoc)
  /\ dom.llmView = LlmViewHtml(Get(FullDoc, "llm_interpretation"))

SendingStatus ==
  [textContent |-> "Sending page to LLM engine...", color |-> MutedColor]

\* Task i, whose request was issued and answered with a 2xx status, finishes
\* in this step.
SuccessfulResponseHandled ==
  \E i \in 1..Len(tasks) :
    /\ i <= Len(net)
    /\ tasks[i].pc = "json" /\ tasks[i].status \in 200..299
    /\ tasks'[i].pc = "done"

\* C16: the lifecycle Idle -> Loading -> (Rendered | Errored) -> Idle: the
\* loading state is entered only by a submission of a non-blank URL; the
\* status "Analysis complete." and every write to the result containers come
\* from the handling of a 2xx response to an issued request; a request's
\* error comes only after that request was issued; and a non-blank submission
\* replaces whatever status there was by the non-error "Sending..." status.
C16_Lifecycle ==
  /\ [](statusText.textContent = "Analysis complete."
          => \E i \in 1..Len(tasks) :
               i <= Len(net) /\ tasks[i].pc = "done" /\ tasks[i].status \in 200..299)
  /\ [][/\ (loader.hidden /\ ~loader'.hidden)
             => calls' = calls + 1 /\ NonBlank(urlInput')
        /\ (dom' # dom) => SuccessfulResponseHandled
        /\ (statusText'.textContent = "Analysis complete." /\ statusText' # statusText)
             => SuccessfulResponseHandled
        /\ (statusText' # statusText /\ statusText'.color = ErrorColor
              /\ statusText' # ValidationStatus)
             => \E i \in 1..Len(net) : InFlight(i) /\ tasks'[i].pc = "done"
        /\ (calls' # calls /\ NonBlank(urlInput'))
             => /\ statusText' = SendingStatus
                /\ ~loader'.hidden /\ analyzeBtn'.disabled]_vars

\* C16 witness: after a first submission that ended in an error, a second
\* submission replaced the error status and entered the loading state.
C16_Witness ==
  /\ calls = 2 /\ Len(tasks) = 2
  /\ tasks[1].pc = "done" /\ tasks[1].status = 404
  /\ tasks[2].pc = "fetch"
  /\ ev.op = "analyzeUrl" /\ ev.kind = "request"
  /\ statusText = SendingStatus
  /\ ~loader.hidden /\ analyzeBtn.disabled

\* C17: in every reachable state in which a request is in flight, the loader
\* is visible and the submit button is disabled.
C17_LoadingWhileInFlight ==
  (\E i \in 1..Len(tasks) : InFlight(i))
    => ~loader.hidden /\ analyzeBtn.disabled

\* Task i finishes in this step by a failure of its request: fetch rejected,
\* the status was not 2xx, or the body of a 2xx response did not parse.
RequestFailed(i) ==
  /\ InFlight(i) /\ tasks'[i].pc = "done"
  /\ \/ tasks[i].pc = "fetch"
     \/ tasks[i].status \notin 200..299
     \/ ev'.kind = "parse_error"

\* C18: the handling of a failed request (network failure, non-2xx status,
\* unparseable body) modifies none of the result containers, the URL field or
\* the request log; it changes the status and the loading state only.
C18_FailureLeavesContainers ==
  [][(\E i \in 1..Len(tasks) : RequestFailed(i))
       => /\ dom' = dom
          /\ urlInput' = urlInput
          /\ net' = net]_vars

\* C18 witness: a non-2xx response was handled while the containers held the
\* result of an earlier submission.
C18_Witness ==
  /\ ev.op = "settle" /\ ev.kind = "http_error"
  /\ Len(tasks) = 2 /\ tasks[1].pc = "done" /\ tasks[2].pc = "done"
  /\ dom = renderResults(FullDoc, InitialDom).dom
  /\ statusText.color = ErrorColor

\* Task i finishes in this step with its result rendered.
RenderedResponseHandled ==
  /\ ev'.op = "settle" /\ ev'.kind = "success"
  /\ \E i \in 1..Len(tasks) :
       /\ i <= Len(net)
       /\ tasks[i].pc = "json" /\ tasks[i].status \in 200..299
       /\ tasks'[i].pc = "done"

\* Task i finishes in this step without its result rendered: its request
\* failed or renderResults threw.
SubmissionFailed ==
  /\ ev'.op = "settle" /\ ev'.kind \in Failures \cup {"render_error"}
  /\ \E i \in 1..Len(tasks) : InFlight(i) /\ tasks'[i].pc = "done"

\* C19: in the backup script a submission with a non-blank URL hides the
\* results wrapper in the step that issues its request; the wrapper becomes
\* visible only in the handling of a 2xx response whose result was rendered
\* without an exception; the end of a failed submission leaves the wrapper
\* as it was.
C19_WrapperShownOnlyAfterRender ==
  [][/\ (calls' # calls /\ NonBlank(urlInput'))
          => resultsWrapper'.hidden /\ Len(net') = Len(net) + 1
     /\ (resultsWrapper.hidden /\ ~resultsWrapper'.hidden)
          => RenderedResponseHandled
     /\ SubmissionFailed => resultsWrapper' = resultsWrapper]_vars

\* C19 witness: the page started with the wrapper visible, and its one
\* submission ended in a rendering exception with the wrapper hidden.
C19_Witness ==
  /\ calls = 1 /\ Len(tasks) = 1 /\ tasks[1].pc = "done"
  /\ ev.op = "settle" /\ ev.kind = "render_error"
  /\ ev.data = BackupNullIssuesDoc
  /\ resultsWrapper.hidden
  /\ dom.arcScore = "78"

\* The integers nearest to h / 10, h in hundredths of the 0-10 scale.
NearestTimes10(h) ==
  {n \in (0 - 1 - MaxOver)..(101 + MaxOver) : 10 * n - 5 <= h /\ h <= 10 * n + 5}

\* C20: the backup script's score header shows the overall score times 10,
\* rounded to the nearest integer (7.8 shows 78), 0 when overall is missing,
\* an integer from 0 to 100 for an overall within [0, 10], and is left as it
\* was when evaluation or evaluation.scores is absent.
C20_BackupHeaderIsRoundedOverall ==
  ev.op = "backup_render"
    => LET scores == GetPath(ev.data, <<"evaluation", "scores">>)
           overall == GetPath(ev.data, <<"evaluation", "scores", "overall">>)
       IN  /\ scores.t = "undefined" => dom.arcScore = ev.before.arcScore
           /\ (scores.t = "object" /\ overall.t = "undefined")
                => dom.arcScore = "0"
           /\ (scores.t = "object" /\ overall.t = "number")
                => /\ dom.arcScore \in {ToString(n) : n \in NearestTimes10(overall.v)}
                   /\ (0 <= overall.v /\ overall.v <= 1000)
                        => dom.arcScore \in {ToString(n) : n \in 0..100}
                   /\ overall.v = 780 => dom.arcScore = "78"

\* C20 witness: an overall of 7.86 was rendered over an earlier result and
\* shows 79.
C20_Witness ==
  /\ ev.op = "backup_render"
  /\ GetPath(ev.data, <<"evaluation", "scores", "overall">>) = Num(786)
  /\ ev.before.arcScore = "78"
  /\ dom.arcScore = "79"

====
